---- MODULE Spec2Model ----
(***************************************************************************)
(* Model of cryptoz/utils.py: the window, normalization and rescaling      *)
(* helpers.  The library is stateless; the state of the model is the call  *)
(* a client is making, its result, and the call made just before it (for   *)
(* properties that compose two calls).                                     *)
(*                                                                         *)
(* Numbers are exact rationals <<n, d>> in lowest terms with d > 0.  The   *)
(* non-finite results of a division by zero are <<1, 0>> (inf),            *)
(* <<-1, 0>> (-inf) and <<0, 0>> (nan).  The standard deviation branch of  *)
(* normalize_sr, whose values are square roots, yields <<n, d, 2>> for     *)
(* sign(n) * sqrt(|n| / d).                                                *)
(***************************************************************************)
EXTENDS Integers, Sequences, FiniteSets, TLC

VARIABLES pc, call, ret, prev

vars == <<pc, call, ret, prev>>

\* ---------------------------------------------------------------- bounds
MaxVal == 2
MaxLen == 3
MaxRows == 2
MaxSeries == 5
MaxSpan == 5
MaxTime == 4
MaxFreq == 3
MaxDyn == 1

\* ------------------------------------------------------------ arithmetic
Sign(n) == IF n > 0 THEN 1 ELSE IF n < 0 THEN -1 ELSE 0

Abs(n) == IF n < 0 THEN -n ELSE n

RECURSIVE GCD(_, _)
GCD(a, b) == IF b = 0 THEN a ELSE GCD(b, a % b)

NaN == <<0, 0>>

Norm(n, d) ==
    IF d = 0 THEN <<Sign(n), 0>>
    ELSE LET g == GCD(Abs(n), Abs(d))
             s == Sign(d)
         IN  <<(s * n) \div g, (s * d) \div g>>

Rat(n) == <<n, 1>>

IsFinite(a) == Len(a) = 2 /\ a[2] # 0

RNeg(a) == <<-a[1], a[2]>>

RAdd(a, b) ==
    IF a[2] # 0 /\ b[2] # 0 THEN Norm(a[1] * b[2] + b[1] * a[2], a[2] * b[2])
    ELSE IF a = NaN \/ b = NaN THEN NaN
    ELSE IF a[2] = 0 /\ b[2] = 0 THEN (IF a = b THEN a ELSE NaN)
    ELSE IF a[2] = 0 THEN a ELSE b

RSub(a, b) == RAdd(a, RNeg(b))

RMul(a, b) ==
    IF a[2] # 0 /\ b[2] # 0 THEN Norm(a[1] * b[1], a[2] * b[2])
    ELSE <<Sign(a[1]) * Sign(b[1]), 0>>

RInv(a) ==
    IF a[2] = 0 THEN (IF a = NaN THEN NaN ELSE Rat(0))
    ELSE IF a[1] = 0 THEN <<1, 0>>
    ELSE Norm(a[2], a[1])

RDiv(a, b) == RMul(a, RInv(b))

RLess(a, b) == a[1] * b[2] < b[1] * a[2]

\* ------------------------------------------------------ series reductions
RECURSIVE SeqMin(_)
SeqMin(s) ==
    IF Len(s) = 0 THEN NaN
    ELSE IF Len(s) = 1 THEN s[1]
    ELSE LET m == SeqMin(Tail(s)) IN IF RLess(s[1], m) THEN s[1] ELSE m

RECURSIVE SeqMax(_)
SeqMax(s) ==
    IF Len(s) = 0 THEN NaN
    ELSE IF Len(s) = 1 THEN s[1]
    ELSE LET m == SeqMax(Tail(s)) IN IF RLess(m, s[1]) THEN s[1] ELSE m

RECURSIVE SeqSum(_)
SeqSum(s) == IF Len(s) = 0 THEN Rat(0) ELSE RAdd(s[1], SeqSum(Tail(s)))

SeqMean(s) == RDiv(SeqSum(s), Rat(Len(s)))

Reverse(s) == [i \in 1..Len(s) |-> s[Len(s) + 1 - i]]

\* ------------------------------------------------------- results of a call
Returned(v) == [kind |-> "return", value |-> v]

ReturnedNone == [kind |-> "none"]

Raised(e) == [kind |-> "raise", exc |-> e]

NoCall == [fn |-> "none"]

NoRet == [kind |-> "pending"]

\* ---------------------------------------------------------- normalization
Methods == {"max", "minmax", "mean", "std", "zscore"}

\* sr.std(): the sample variance (ddof=1), whose square root std() returns
SeqVar(s) ==
    LET m == SeqMean(s)
        sq == [i \in 1..Len(s) |-> RMul(RSub(s[i], m), RSub(s[i], m))]
    IN  RDiv(SeqSum(sq), Rat(Len(s) - 1))

\* d / sqrt(v), kept as the signed square <<n, d, 2>>
DivSqrt(d, v) ==
    IF ~IsFinite(v) THEN NaN
    ELSE IF v[1] = 0 THEN RDiv(d, Rat(0))
    ELSE LET q == RDiv(RMul(d, d), v) IN <<Sign(d[1]) * q[1], q[2], 2>>

\* normalize_sr whose 'minmax' branch subtracts the mean
normalize_sr_meanshift(sr, method) ==
    IF method \in {"minmax", "mean"} THEN
        Returned([i \in 1..Len(sr) |->
            RDiv(RSub(sr[i], SeqMean(sr)), RSub(SeqMax(sr), SeqMin(sr)))])
    ELSE ReturnedNone

normalize_sr(sr, method) ==
    IF method = "max" THEN
        Returned([i \in 1..Len(sr) |-> RDiv(sr[i], SeqMax(sr))])
    ELSE IF method = "minmax" THEN
        Returned([i \in 1..Len(sr) |->
            RDiv(RSub(sr[i], SeqMin(sr)), RSub(SeqMax(sr), SeqMin(sr)))])
    ELSE IF method = "mean" THEN
        Returned([i \in 1..Len(sr) |->
            RDiv(RSub(sr[i], SeqMean(sr)), RSub(SeqMax(sr), SeqMin(sr)))])
    ELSE IF method = "std" THEN
        Returned([i \in 1..Len(sr) |->
            DivSqrt(RSub(sr[i], SeqMean(sr)), SeqVar(sr))])
    ELSE ReturnedNone

\* ---------------------------------------------------------------- windows
\* A table with one column is a sequence of rows <<index, value>>.
Column(df) == [i \in 1..Len(df) |-> df[i][2]]

Max2(a, b) == IF a > b THEN a ELSE b

Min2(a, b) == IF a < b THEN a ELSE b

\* select_window: rows whose index is greater than index.max() - window.  The
\* maximum of an empty index is NaT, which compares False with everything.
IndexMax(df) == CHOOSE t \in {df[i][1] : i \in 1..Len(df)} :
                    \A i \in 1..Len(df) : df[i][1] <= t

RECURSIVE Mask(_, _)
Mask(df, keep) ==
    IF df = <<>> THEN <<>>
    ELSE (IF keep[1] THEN <<df[1]>> ELSE <<>>) \o Mask(Tail(df), Tail(keep))

select_window(df, window) ==
    Mask(df, [i \in 1..Len(df) |-> df[i][1] > IndexMax(df) - window])

\* The reducers handed to the window functions: a record naming the function.
\*   sum             lambda sr: sr.sum()
\*   last            lambda sr: sr[-1]
\*   normalize_last  lambda sr: normalize_sr(sr, method)[-1]
Func(func, sr) ==
    IF func.name = "sum" THEN Returned(SeqSum(sr))
    ELSE IF func.name = "last" THEN Returned(sr[Len(sr)])
    ELSE LET r == normalize_sr(sr, func.method)
         IN  IF r.kind = "none" THEN Raised("TypeError")
             ELSE Returned(r.value[Len(sr)])

\* The values of a frame of results, or the first exception a cell raised.
Collect(cells) ==
    IF \E i \in 1..Len(cells) : cells[i][2].kind = "raise"
    THEN Raised("TypeError")
    ELSE Returned([i \in 1..Len(cells) |-> <<cells[i][1], cells[i][2].value>>])

\* min_periods of df.rolling(window, min_periods=None): the window size
RollingMinPeriods(kwargs) ==
    IF "min_periods" \in DOMAIN kwargs THEN kwargs.min_periods ELSE kwargs.window

\* df.rolling(**kwargs).apply(func, raw=False): at each row the function of the
\* last `window` rows up to it, nan while fewer than min_periods rows are there
Rolling(df, func, kwargs) ==
    Collect([i \in 1..Len(df) |->
        LET w == SubSeq(df, Max2(1, i - kwargs.window + 1), i)
        IN  <<df[i][1], IF Len(w) >= RollingMinPeriods(kwargs)
                        THEN Func(func, Column(w))
                        ELSE Returned(NaN)>>])

\* df.expanding(min_periods=1).apply(func, raw=False)
Expanding(df, func, kwargs) ==
    Collect([i \in 1..Len(df) |->
        LET w == SubSeq(df, 1, i)
        IN  <<df[i][1], IF Len(w) >= kwargs.min_periods
                        THEN Func(func, Column(w))
                        ELSE Returned(NaN)>>])

\* .iloc[::-1] of a result
Iloc(r) == IF r.kind = "return" THEN Returned(Reverse(r.value)) ELSE r

\* rolling_apply that does not reverse the result back
rolling_apply_noreverse(df, func, backwards, kwargs) ==
    IF backwards THEN Rolling(Reverse(df), func, kwargs)
    ELSE Rolling(df, func, kwargs)

\* rolling_apply that ignores min_periods
rolling_apply_nominp(df, func, backwards, kwargs) ==
    LET kw == [window |-> kwargs.window, min_periods |-> 1]
    IN  IF backwards THEN Iloc(Rolling(Reverse(df), func, kw))
        ELSE Rolling(df, func, kw)

rolling_apply(df, func, backwards, kwargs) ==
    IF backwards THEN Iloc(Rolling(Reverse(df), func, kwargs))
    ELSE Rolling(df, func, kwargs)

expanding_apply(df, func, backwards, kwargs) ==
    IF backwards THEN Iloc(Expanding(Reverse(df), func, kwargs))
    ELSE Expanding(df, func, kwargs)

rolling_normalize(df, method, backwards, kwargs) ==
    rolling_apply(df, [name |-> "normalize_last", method |-> method], backwards, kwargs)

\* resample(freq): the bin of a timestamp; bins are aligned to the origin
Bin(t, freq) == t \div freq

\* pd.Series(df.index, index=df.index).resample(freq).first().dropna(): the
\* first timestamp of every bin that holds a row
PeriodIndex(df, freq) ==
    {df[i][1] : i \in {k \in 1..Len(df) :
        \A j \in 1..(k - 1) : Bin(df[j][1], freq) # Bin(df[k][1], freq)}}

RECURSIVE CumSum(_)
CumSum(s) ==
    IF s = <<>> THEN <<>>
    ELSE LET c == CumSum(SubSeq(s, 1, Len(s) - 1))
         IN  Append(c, (IF c = <<>> THEN 0 ELSE c[Len(c)]) + s[Len(s)])

\* Grouper that marks the first rows without the running sum
GrouperNoCumSum(df, freq) ==
    [i \in 1..Len(df) |-> IF df[i][1] \in PeriodIndex(df, freq) THEN 1 ELSE 0]

\* pd.Series(1, index=period_index.values).reindex(df.index).fillna(0).cumsum()
Grouper(df, freq) ==
    CumSum([i \in 1..Len(df) |-> IF df[i][1] \in PeriodIndex(df, freq) THEN 1 ELSE 0])

Group(df, g, key) == Mask(df, [i \in 1..Len(df) |-> g[i] = key])

RECURSIVE SortedKeys(_)
SortedKeys(S) ==
    IF S = {} THEN <<>>
    ELSE LET m == CHOOSE x \in S : \A y \in S : x <= y
         IN  <<m>> \o SortedKeys(S \ {m})

\* df.groupby(grouper).apply(lambda df: df.apply(func, raw=False)): one row per
\* group, indexed by the group's key
resampling_apply(df, func, freq) ==
    LET g == Grouper(df, freq)
        keys == SortedKeys({g[i] : i \in 1..Len(df)})
    IN  Collect([k \in 1..Len(keys) |->
            <<keys[k], Func(func, Column(Group(df, g, keys[k])))>>])

\* ------------------------------------------------------------- rescaling
Values == {Rat(n) : n \in 0..MaxVal}

Ranges == Values \X Values

SeriesOf(S, n) == UNION {[1..k -> S] : k \in 0..n}

\* rescale_single without the identity short-circuit
rescale_single_noshort(x, from_range, to_range) ==
    LET min1 == from_range[1]
        max1 == from_range[2]
        min2 == to_range[1]
        max2 == to_range[2]
        diff1 == RSub(max1, min1)
        diff2 == RSub(max2, min2)
    IN  RAdd(RDiv(RMul(RSub(x, min1), diff2), diff1), min2)

\* rescale_single that forgets to subtract min1
rescale_single_nooffset(x, from_range, to_range) ==
    IF from_range = to_range THEN x
    ELSE LET diff1 == RSub(from_range[2], from_range[1])
             diff2 == RSub(to_range[2], to_range[1])
         IN  RAdd(RDiv(RMul(x, diff2), diff1), to_range[1])

rescale_single(x, from_range, to_range) ==
    IF from_range = to_range THEN x
    ELSE LET min1 == from_range[1]
             max1 == from_range[2]
             min2 == to_range[1]
             max2 == to_range[2]
             diff1 == RSub(max1, min1)
             diff2 == RSub(max2, min2)
         IN  RAdd(RDiv(RMul(RSub(x, min1), diff2), diff1), min2)

\* from_range = <<>> stands for from_range=None
rescale_sr(sr, to_range, from_range) ==
    LET fr == IF from_range = <<>> THEN <<SeqMin(sr), SeqMax(sr)>> ELSE from_range
    IN  [i \in 1..Len(sr) |-> rescale_single(sr[i], fr, to_range)]

dynamic_rescale(df, from_range, to_range) ==
    LET min1 == from_range[1]
        max1 == from_range[2]
        min2 == to_range[1]
        max2 == to_range[2]
    IN  [i \in 1..Len(df) |->
            RAdd(RDiv(RMul(RSub(df[i], min1), RSub(max2, min2)), RSub(max1, min1)), min2)]

\* ------------------------------------------------------- apply on a frame
\* A frame with several columns is a sequence of rows, each a sequence of the
\* values of its columns.  axis is "index" (0: the function sees each column),
\* "columns" (1: it sees each row) or "None" (it sees all values, flattened).
Columns == <<"a", "b">>

RECURSIVE Flatten(_)
Flatten(df) == IF df = <<>> THEN <<>> ELSE df[1] \o Flatten(Tail(df))

Reshape(flat, nrows, ncols) ==
    [i \in 1..nrows |-> [j \in 1..ncols |-> flat[(i - 1) * ncols + j]]]

\* reverse_scale's function that leaves out the minimum
ReverseFuncNoMin(a) == [i \in 1..Len(a) |-> RSub(SeqMax(a), a[i])]

\* lambda a: np.nanmin(a) + np.nanmax(a) - a
ReverseFunc(a) == [i \in 1..Len(a) |-> RSub(RAdd(SeqMin(a), SeqMax(a)), a[i])]

\* the functions handed to apply, by the name of the function that builds them
FrameFunc(func, a) == CASE func = "reverse_scale" -> ReverseFunc(a)

apply(df, func, axis) ==
    LET nrows == Len(df)
        ncols == Len(df[1])
    IN  IF axis = "None"
        THEN Reshape(FrameFunc(func, Flatten(df)), nrows, ncols)
        ELSE IF axis = "index"
        THEN [i \in 1..nrows |-> [j \in 1..ncols |->
                FrameFunc(func, [k \in 1..nrows |-> df[k][j]])[i]]]
        ELSE [i \in 1..nrows |-> FrameFunc(func, df[i])]

reverse_scale(df, axis) == apply(df, "reverse_scale", axis)

Init ==
    /\ pc = "start"
    /\ call = NoCall
    /\ ret = NoRet
    /\ prev = [call |-> NoCall, ret |-> NoRet]

\* A client makes one call, and may feed its result to a second call of the
\* same function, with the ranges of the first call in either order.
Invoke(c, r) ==
    /\ pc' = IF pc = "start" THEN "returned" ELSE "composed"
    /\ prev' = [call |-> call, ret |-> ret]
    /\ call' = c
    /\ ret' = r

Again(fn) == pc = "returned" /\ call.fn = fn /\ ret.kind = "return"

RescaleSingle ==
    \/ /\ pc = "start"
       /\ \E x \in Values, from_range \in Ranges, to_range \in Ranges :
            Invoke([fn |-> "rescale_single", x |-> x, from_range |-> from_range,
                    to_range |-> to_range],
                   Returned(rescale_single(x, from_range, to_range)))
    \/ /\ Again("rescale_single")
       /\ \E from_range \in {call.from_range, call.to_range},
             to_range \in {call.from_range, call.to_range} :
            Invoke([fn |-> "rescale_single", x |-> ret.value,
                    from_range |-> from_range, to_range |-> to_range],
                   Returned(rescale_single(ret.value, from_range, to_range)))

RescaleSr ==
    /\ pc = "start"
    /\ \E sr \in SeriesOf(Values, MaxRows), from_range \in Ranges \cup {<<>>},
          to_range \in Ranges :
            Invoke([fn |-> "rescale_sr", sr |-> sr, from_range |-> from_range,
                    to_range |-> to_range],
                   Returned(rescale_sr(sr, to_range, from_range)))

DynamicRescale ==
    \/ /\ pc = "start"
       /\ \E df \in SeriesOf(Values, MaxDyn) \ {<<>>},
             from_range \in Ranges, to_range \in Ranges :
            Invoke([fn |-> "dynamic_rescale", df |-> df, from_range |-> from_range,
                    to_range |-> to_range],
                   Returned(dynamic_rescale(df, from_range, to_range)))
    \/ /\ Again("dynamic_rescale")
       /\ \E from_range \in {call.from_range, call.to_range},
             to_range \in {call.from_range, call.to_range} :
            Invoke([fn |-> "dynamic_rescale", df |-> ret.value,
                    from_range |-> from_range, to_range |-> to_range],
                   Returned(dynamic_rescale(ret.value, from_range, to_range)))

NormalizeSr ==
    /\ pc = "start"
    /\ \E sr \in SeriesOf(Values, MaxLen), method \in Methods :
            Invoke([fn |-> "normalize_sr", sr |-> sr, method |-> method],
                   normalize_sr(sr, method))

\* ------------------------------------------------------- inputs of calls
Bits == {Rat(0), Rat(1)}

\* a column of n values on the index 1..n
Indexed(values) == [i \in 1..Len(values) |-> <<i, values[i]>>]

RollTables == {Indexed(v) : v \in SeriesOf(Bits, MaxSeries)}

Reducers == {[name |-> "sum"], [name |-> "last"]}

\* window alone (min_periods=None), or window with min_periods <= window
RollKwargs(n) ==
    {[window |-> w] : w \in 1..n}
        \cup UNION {{[window |-> w, min_periods |-> m] : m \in 1..w} : w \in 1..n}

\* tables whose index is sorted ascending
TimeTables ==
    {df \in SeriesOf((0..MaxTime) \X Bits, MaxLen) :
        \A i \in 1..(Len(df) - 1) : df[i][1] <= df[i + 1][1]}

Frames == UNION {[1..n -> [1..Len(Columns) -> Values]] : n \in 1..MaxRows}

Axes == {"index", "columns", "None"}

RollingNormalize ==
    /\ pc = "start"
    /\ \E v \in SeriesOf(Values, MaxLen), method \in Methods, backwards \in BOOLEAN,
          kwargs \in RollKwargs(MaxLen) :
            Invoke([fn |-> "rolling_normalize", df |-> Indexed(v), method |-> method,
                    backwards |-> backwards, kwargs |-> kwargs],
                   rolling_normalize(Indexed(v), method, backwards, kwargs))

RollingApply ==
    /\ pc = "start"
    /\ \E df \in RollTables, func \in Reducers, backwards \in BOOLEAN,
          kwargs \in RollKwargs(MaxSpan) :
            Invoke([fn |-> "rolling_apply", df |-> df, func |-> func,
                    backwards |-> backwards, kwargs |-> kwargs],
                   rolling_apply(df, func, backwards, kwargs))

ExpandingApply ==
    /\ pc = "start"
    /\ \E df \in RollTables, func \in Reducers, backwards \in BOOLEAN,
          m \in 1..MaxSpan :
            Invoke([fn |-> "expanding_apply", df |-> df, func |-> func,
                    backwards |-> backwards, kwargs |-> [min_periods |-> m]],
                   expanding_apply(df, func, backwards, [min_periods |-> m]))

SelectWindow ==
    /\ pc = "start"
    /\ \E df \in TimeTables, window \in 0..MaxTime :
            Invoke([fn |-> "select_window", df |-> df, window |-> window],
                   Returned(select_window(df, window)))

ResamplingApply ==
    /\ pc = "start"
    /\ \E df \in TimeTables, func \in Reducers, freq \in 1..MaxFreq :
            Invoke([fn |-> "resampling_apply", df |-> df, func |-> func,
                    freq |-> freq],
                   resampling_apply(df, func, freq))

ReverseScale ==
    \/ /\ pc = "start"
       /\ \E df \in Frames, axis \in Axes :
            Invoke([fn |-> "reverse_scale", df |-> df, axis |-> axis],
                   Returned(reverse_scale(df, axis)))
    \/ /\ Again("reverse_scale")
       /\ \E axis \in Axes :
            Invoke([fn |-> "reverse_scale", df |-> ret.value, axis |-> axis],
                   Returned(reverse_scale(ret.value, axis)))

NextRescale == RescaleSingle \/ RescaleSr \/ DynamicRescale

SpecRescale == Init /\ [][NextRescale]_vars

NextNormalize == NormalizeSr \/ RollingNormalize

SpecNormalize == Init /\ [][NextNormalize]_vars

NextRolling == RollingApply \/ ExpandingApply

SpecRolling == Init /\ [][NextRolling]_vars

NextResample == SelectWindow \/ ResamplingApply

SpecResample == Init /\ [][NextResample]_vars

NextReverse == ReverseScale

SpecReverse == Init /\ [][NextReverse]_vars

\* ------------------------------------------------ claims about rescaling
Degenerate(r) == r[1] = r[2]

IsRoundTrip(fn) ==
    /\ pc = "composed"
    /\ call.fn = fn
    /\ prev.call.fn = fn
    /\ call.from_range = prev.call.to_range
    /\ call.to_range = prev.call.from_range
    /\ call.from_range # call.to_range
    /\ ~Degenerate(call.from_range)
    /\ ~Degenerate(call.to_range)

\* C8: for ranges r1 # r2 with max # min in both, rescaling x from r1 to r2
\* and the result from r2 back to r1 returns x (exact arithmetic), for
\* rescale_single and for the element-wise dynamic_rescale.
RescaleRoundTrip ==
    /\ IsRoundTrip("rescale_single") => ret = Returned(prev.call.x)
    /\ IsRoundTrip("dynamic_rescale") => ret = Returned(prev.call.df)

RescaleRoundTripWitness ==
    /\ IsRoundTrip("rescale_single")
    /\ prev.ret.value # prev.call.x
    /\ prev.ret.value[2] > 1
    /\ ret = Returned(prev.call.x)

\* -------------------------------------------- claims about normalization
KnownMethods == {"max", "minmax", "mean", "std"}

\* C2: normalize_sr, and the functions built on it, fail with
\* InvalidMethodError for a method other than 'max', 'minmax', 'mean', 'std';
\* they never return (in particular never None).
UnknownMethodFails ==
    (call.fn \in {"normalize_sr", "rolling_normalize"} /\ call.method \notin KnownMethods)
        => (ret.kind = "raise" /\ ret.exc = "InvalidMethodError")

\* C10: for a series with max # min, normalize_sr(s, 'minmax') has minimum
\* exactly 0 and maximum exactly 1, and every element lies in [0, 1].
MinMaxBounds ==
    (call.fn = "normalize_sr" /\ call.method = "minmax"
        /\ SeqMin(call.sr) # SeqMax(call.sr))
        => /\ ret.kind = "return"
           /\ Len(ret.value) = Len(call.sr)
           /\ SeqMin(ret.value) = Rat(0)
           /\ SeqMax(ret.value) = Rat(1)
           /\ \A i \in 1..Len(ret.value) :
                /\ IsFinite(ret.value[i])
                /\ ~RLess(ret.value[i], Rat(0))
                /\ ~RLess(Rat(1), ret.value[i])

MinMaxBoundsWitness ==
    /\ call.fn = "normalize_sr"
    /\ call.method = "minmax"
    /\ SeqMin(call.sr) # SeqMax(call.sr)
    /\ ret.kind = "return"
    /\ \E i \in 1..Len(ret.value) :
            RLess(Rat(0), ret.value[i]) /\ RLess(ret.value[i], Rat(1))

\* --------------------------------------------------- claims about windows
\* C5: select_window on a table with no rows fails with EmptyTableError; it
\* does not return an empty table or any other value.
SelectEmptyFails ==
    (call.fn = "select_window" /\ call.df = <<>>)
        => (ret.kind = "raise" /\ ret.exc = "EmptyTableError")

BinsOf(df, freq) == {Bin(df[i][1], freq) : i \in 1..Len(df)}

FirstIn(df, freq, b) ==
    df[CHOOSE i \in 1..Len(df) :
        /\ Bin(df[i][1], freq) = b
        /\ \A j \in 1..(i - 1) : Bin(df[j][1], freq) # b][1]

\* C3: resampling_apply with a reducer gives exactly one output row per
\* non-empty bucket, and that row's index is the index value of the bucket's
\* first row, not a bucket counter.
ResampleRowPerBucket ==
    (call.fn = "resampling_apply")
        => /\ ret.kind = "return"
           /\ Len(ret.value) = Cardinality(BinsOf(call.df, call.freq))
           /\ {ret.value[k][1] : k \in 1..Len(ret.value)}
                = {FirstIn(call.df, call.freq, b) : b \in BinsOf(call.df, call.freq)}

RECURSIVE ConcatGroups(_, _, _)
ConcatGroups(df, g, keys) ==
    IF keys = <<>> THEN <<>>
    ELSE Group(df, g, keys[1]) \o ConcatGroups(df, g, Tail(keys))

\* C4: the group assignment of resampling_apply puts every row in exactly one
\* bucket; the buckets are contiguous runs of rows inside one time interval,
\* they do not overlap, and together they are exactly the rows of the input,
\* each once; the output has one row per bucket of the assignment.
ResamplePartition ==
    (call.fn = "resampling_apply")
        => LET df == call.df
               g == Grouper(df, call.freq)
               keys == {g[i] : i \in 1..Len(df)}
           IN  /\ Len(g) = Len(df)
               /\ \A i, k \in 1..Len(df) : \A j \in i..k : g[i] = g[k] => g[j] = g[i]
               /\ \A i, j \in 1..Len(df) :
                    g[i] = g[j] => Bin(df[i][1], call.freq) = Bin(df[j][1], call.freq)
               /\ ConcatGroups(df, g, SortedKeys(keys)) = df
               /\ ret.kind = "return"
               /\ Len(ret.value) = Cardinality(keys)

ResamplePartitionWitness ==
    /\ call.fn = "resampling_apply"
    /\ Len(call.df) = MaxLen
    /\ ret.kind = "return"
    /\ Len(ret.value) = 2
    /\ call.df[1][1] # call.df[2][1]
    /\ Bin(call.df[1][1], call.freq) = Bin(call.df[2][1], call.freq)
    /\ Bin(call.df[MaxLen][1], call.freq) > Bin(call.df[1][1], call.freq) + 1

\* the rows from row i on that a backward window of `window` rows holds
Following(df, i, window) == SubSeq(df, i, Min2(i + window - 1, Len(df)))

ReverseInvolution ==
    (pc = "composed" /\ call.fn = "reverse_scale" /\ prev.call.fn = "reverse_scale"
        /\ call.axis = prev.call.axis)
        => ret = Returned(prev.call.df)

ReverseInvolutionWitness ==
    /\ pc = "composed"
    /\ call.fn = "reverse_scale"
    /\ prev.call.fn = "reverse_scale"
    /\ call.axis = "None"
    /\ prev.call.axis = "None"
    /\ Len(prev.call.df) = MaxRows
    /\ prev.ret.value # prev.call.df
    /\ ret = Returned(prev.call.df)

====
